---- MODULE Spec2Model ----
(***************************************************************************)
(* Roster-to-calendar synchronisation of shift-weaver.                     *)
(*                                                                         *)
(* The model follows MainWindow.update_calendar (src/src/ui.py) step by    *)
(* step: the roster-derived shift list is built from the date row and the  *)
(* user's row, the application's events are listed from the remote         *)
(* calendar over the term's date window, outdated events are deleted one   *)
(* blocking call at a time, the shifts missing remotely are written by a   *)
(* ThreadPool, and the counts are reported.  Shift (src/src/shift.py) is   *)
(* a record holding its iCalendar properties; the remote calendar is a     *)
(* set of event records with one event per UID.                            *)
(*                                                                         *)
(* Spec is the sync on rosters of the labels " off ", "d" and "T".         *)
(* LabelSpec builds the roster-derived shifts on rosters of more cell      *)
(* texts and repeated dates.  ParseSpec starts from the worksheet: the     *)
(* TermRosterParser of ui.py, or the locators main.py calls, then the name *)
(* selection, and for ui.py the sync that follows.                         *)
(***************************************************************************)
EXTENDS Integers, Sequences, FiniteSets, TLC

(* ------------------------------ bounds --------------------------------- *)
\* Number of calendar days of the term (day 0 is the day before the term).
MaxDay == 2
\* Number of date-typed columns of the date row (after the isinstance filter).
NumCols == 2
\* Largest number of events on the remote calendar before the first run.
MaxRemote == 2
\* Number of rows of the worksheet above the staff rows.
NumHeaderRows == 2
\* A worker ceiling scaled to the create sets of the model (the
\* specification's example is 32); the program has no such number.
WorkerCeiling == 1
\* Largest number of row headers handed to filter_names_dict, and the rows
\* they sit on.
MaxCandidates == 3

Days == 1..MaxDay

(* --------------------------- shift.py ---------------------------------- *)
APP_NAME == "ShiftWeaver"
_EMPLOYEE_ID == "60316064"
_EMPLOYER_NAME == "SWSLHD"

\* Raw cell texts of the user's row.
CellValues == {" off ", "d", "T"}

\* str.strip() on the cell texts of the model.
Strip(s) == CASE s = " off " -> "off"
              [] s = "  "    -> ""
              [] OTHER       -> s

\* str.upper() on the cell texts of the model.
Upper(s) == CASE s = "off"   -> "OFF"
              [] s = " off " -> " OFF "
              [] s = "d"     -> "D"
              [] OTHER       -> s

\* Shift.LABEL_MEANING: label -> summary text, the label itself when absent.
LABEL_MEANING == [D |-> "Day", MF |-> "Morning Float", F |-> "Float",
                  E |-> "Evening", N |-> "Night", SR |-> "Sick Relief",
                  T |-> "Teaching Day", AL |-> "Annual Leave"]

\* Shift.SHIFT_START_TIMES: label -> time of day (HHMM) in Australia/Sydney.
SHIFT_START_TIMES == [D |-> 800, MF |-> 1000, F |-> 1230, E |-> 1400, N |-> 2230]

\* A uid taken from the calendar day of the start alone.
generate_uid_by_day(start) == start.day

\* Shift.__generate_uid: uuid5 of "EMPLOYER:EMPLOYEE:%Y%m%d%H%M%S%Z" of the
\* start.  uuid5 is taken to be injective on its name string, which is
\* determined by the day, the time of day and whether the start is
\* timezone-aware (%Z is empty for a naive start).
generate_uid(start) ==
    (start.day * 10000 + start.tod) * 2 + (IF start.tz = "naive" THEN 0 ELSE 1)

\* Shift.__init__: the iCalendar properties of Shift(shift_date, shift_label).
Shift(shift_date, shift_label) ==
    LET label == Upper(Strip(shift_label))
        timed == label \in DOMAIN SHIFT_START_TIMES
        start == IF timed
                 THEN [day |-> shift_date, tod |-> SHIFT_START_TIMES[label],
                       tz |-> "Australia/Sydney"]
                 ELSE [day |-> shift_date, tod |-> 0, tz |-> "naive"]
    IN  [cls          |-> "Shift",
         uid          |-> generate_uid(start),
         start        |-> start,
         duration     |-> IF timed THEN 10 ELSE 24,
         summary      |-> IF label \in DOMAIN LABEL_MEANING
                          THEN LABEL_MEANING[label] ELSE label,
         published_by |-> APP_NAME]

\* datetime.__lt__: two naive datetimes, or two aware ones of the same
\* tzinfo, compare by date and time of day; a naive and an aware one raise
\* TypeError.
DatetimeLt(a, b) ==
    IF (a.tz = "naive") # (b.tz = "naive") THEN "TypeError"
    ELSE IF a.day < b.day \/ (a.day = b.day /\ a.tod < b.tod) THEN "True"
    ELSE "False"

\* Shift.__lt__(self, other) for two Shifts: self.start < other.start.
Shift__lt__(self, other) == DatetimeLt(self.start, other.start)

\* No comparison has been made.
NoComparison == [a |-> 0, b |-> 0, result |-> "none"]

\* The component a calendar holds for a saved Shift (Shift.to_ical() parsed
\* back by the caldav client): the same properties on a plain Event.
EventOf(shift) == [shift EXCEPT !.cls = "Event"]

\* icalendar's Component.__eq__: property-wise equality of two components.
ComponentEq(a, b) == [a EXCEPT !.cls = "Event"] = [b EXCEPT !.cls = "Event"]

\* The caldav resource get_shifts_from_calendar returns for an event of the
\* calendar (caldav's Event, which wraps the icalendar component).
ResourceOf(event) == [cls |-> "caldav.Event", component |-> event]

\* Shift.__eq__(self, other): uid equality between two Shifts; for any other
\* object it returns NotImplemented and Python falls back to the reflected
\* comparison of the other operand: icalendar's property-wise
\* Component.__eq__ for a component, and the identity comparison of object
\* for a caldav resource, whose class defines no __eq__.
Shift__eq__(self, other) ==
    IF other.cls = "Shift" THEN self.uid = other.uid
    ELSE IF other.cls = "Event" THEN ComponentEq(other, self)
    ELSE FALSE

(* ------------------------------ state ---------------------------------- *)
VARIABLES
    roster,          \* date-typed columns: <<[date, label], ...>>
    remote,          \* events on the remote calendar
    pc,              \* position of update_calendar
    run,             \* 1 in the first sync run, 2 in the second
    updated_shifts,  \* shifts derived from the roster
    min_date,        \* first date of the term
    max_date,        \* last date of the term
    old_shifts,      \* listing returned by get_shifts_from_calendar
    outdated_shifts, \* events to delete
    del_idx,         \* position of the delete loop in outdated_shifts
    new_shifts,      \* shifts to create
    tasks,           \* state of each ThreadPool task
    success_count,
    fail_count,
    report,          \* what the "Program Completed" message shows
    del_calls,       \* events submitted for deletion in this run
    create_calls,    \* positions of new_shifts submitted for creation
    call_failed,     \* some remote delete or create call of this run failed
    first_run,       \* summary of the first run, kept for the second
    overwritten,     \* remote events a create call of this run replaced
    program,         \* the entry point that runs: "ui" (ui.py) or "main" (main.py)
    sheet,           \* the active worksheet: rows of cells
    parser,          \* MainWindow.parser: the TermRosterParser, once built
    username,        \* the name picked in the name-select window
    dates_row,       \* main.py: result of find_date_row(worksheet)
    names_col,       \* main.py: result of find_name_column(worksheet)
    names,           \* main.py: name -> row number
    candidates,      \* the dict handed to filter_names_dict, in iteration order
    lt_result        \* outcome of the last comparison a < b of two Shifts

\* The worksheet and what the two entry points derive from it.
frontVars == <<program, sheet, parser, username, dates_row, names_col, names,
               candidates, lt_result>>

vars == <<roster, remote, pc, run, updated_shifts, min_date, max_date,
          old_shifts, outdated_shifts, del_idx, new_shifts, tasks,
          success_count, fail_count, report, del_calls, create_calls,
          call_failed, first_run, overwritten, program, sheet, parser, username,
          dates_row, names_col, names, candidates, lt_result>>

\* What a step before the sync leaves alone.
syncData == <<roster, remote, run, updated_shifts, min_date, max_date,
              old_shifts, outdated_shifts, del_idx, new_shifts, tasks,
              success_count, fail_count, report, del_calls, create_calls,
              call_failed, first_run, overwritten>>

(* --------------------------- helpers ----------------------------------- *)
RECURSIVE SeqMin(_), SeqMax(_)
\* min() over a non-empty sequence of day numbers.
SeqMin(s) == IF Len(s) = 1 THEN Head(s)
             ELSE LET m == SeqMin(Tail(s)) IN IF Head(s) < m THEN Head(s) ELSE m

\* max() over a non-empty sequence of day numbers.
SeqMax(s) == IF Len(s) = 1 THEN Head(s)
             ELSE LET m == SeqMax(Tail(s)) IN IF Head(s) > m THEN Head(s) ELSE m

RECURSIVE ByUid(_)
\* The events of a set as a list, in ascending uid order (one event per uid).
ByUid(S) == IF S = {} THEN <<>>
            ELSE LET e == CHOOSE x \in S : \A y \in S : x.uid <= y.uid
                 IN  <<e>> \o ByUid(S \ {e})

\* A count kept by workers that increment a shared counter without a lock:
\* of two increments that meet, one is lost.
CountLossy(s, v) ==
    LET n == Cardinality({i \in 1..Len(s) : s[i] = v})
    IN  IF n > 1 THEN n - 1 ELSE n

\* list.count(v)
Count(s, v) == Cardinality({i \in 1..Len(s) : s[i] = v})

(* ------------------- ui.py: roster-derived shifts ---------------------- *)
\* `x in ("OFF")` is a substring test on the string "OFF".
SubstringsOfOFF == {"", "O", "F", "OF", "FF", "OFF"}

\* IsShiftLabel testing the raw cell text, without strip().
IsShiftLabelNoStrip(cell) ==
    /\ cell # ""
    /\ Upper(cell) \notin SubstringsOfOFF

\* The condition of ui.py lines 271-276 for a text cell: non-empty after
\* strip() and its upper-cased form not "in" the string "OFF".
IsShiftLabel(cell) ==
    /\ Strip(cell) # ""
    /\ Upper(Strip(cell)) \notin SubstringsOfOFF

RECURSIVE RosterShifts(_)
\* The loop of ui.py lines 270-279 over zip(dates, shift_labels).
RosterShifts(cols) ==
    IF cols = <<>> THEN <<>>
    ELSE LET c == Head(cols)
         IN  (IF IsShiftLabel(c.label)
              THEN <<Shift(c.date, Strip(c.label))>> ELSE <<>>)
             \o RosterShifts(Tail(cols))

\* RosterDates keeping only the dates under which the user has a shift (all
\* dates when the user has none).
RosterDatesOfShifts(cols) ==
    LET worked == SelectSeq(cols, LAMBDA c : IsShiftLabel(c.label))
        kept == IF worked = <<>> THEN cols ELSE worked
    IN  [i \in 1..Len(kept) |-> kept[i].date]

\* The dates of the date row (ui.py line 262).
RosterDates(cols) == [i \in 1..Len(cols) |-> cols[i].date]

(* --------------- calendar_handler.py: remote listing ------------------- *)
\* calendar.search(start, end, event=True): the events of the window.
Search(cal, start, end) == {e \in cal : start <= e.start.day /\ e.start.day <= end}

\* get_shifts_from_calendar without the X-PUBLISHED-BY filter.
get_shifts_unfiltered(cal, start, end) == ByUid(Search(cal, start, end))

\* get_shifts_from_calendar: the events of the window published by the app.
get_shifts_from_calendar(cal, start, end) ==
    ByUid({e \in Search(cal, start, end) : e.published_by = APP_NAME})

(* ------------------- ui.py: reconciliation ----------------------------- *)
\* `component not in updated_shifts`: list membership compares with ==.
InUpdated(component, updated) ==
    \E i \in 1..Len(updated) : Shift__eq__(updated[i], component)

\* OutdatedShifts with the no-op rule for an empty roster-derived list.
OutdatedShiftsNoOp(old, updated) ==
    LET Outdated(e) == ~InUpdated(e, updated)
    IN  IF Len(old) > 0 /\ Len(updated) > 0 THEN SelectSeq(old, Outdated) ELSE <<>>

\* ui.py lines 333-342: the listed events that are not in updated_shifts.
OutdatedShifts(old, updated) ==
    LET Outdated(e) == ~InUpdated(e, updated)
    IN  IF Len(old) > 0 THEN SelectSeq(old, Outdated) ELSE <<>>

\* NewShifts comparing with == as the delete side does, instead of by uid.
NewShiftsByEq(updated, old) ==
    LET Missing(s) == ~\E j \in 1..Len(old) : Shift__eq__(s, old[j])
    IN  SelectSeq(updated, Missing)

\* ui.py lines 354-365: the roster shifts whose uid no listed event has.
NewShifts(updated, old) ==
    LET Missing(s) == ~\E j \in 1..Len(old) : s.uid = old[j].uid
    IN  SelectSeq(updated, Missing)

\* calendar.save_event(no_create=False, no_overwrite=False): create the
\* event, replacing the event of the same uid if there is one.
SaveEvent(cal, shift) == {e \in cal : e.uid # shift.uid} \cup {EventOf(shift)}

\* The events of the calendar that save_event replaces: those of the uid of
\* the saved shift.
Replaced(cal, shift) == {e \in cal : e.uid = shift.uid}

\* Event.delete(): remove the resource of the event.
DeleteEvent(cal, event) == {e \in cal : e.uid # event.uid}

(* ------------- term_roster_parser.py: the worksheet -------------------- *)
\* TermRosterParser.find_date_row: REQUIRED_MIN_DATE_COLUMNS_IN_ROW.
REQUIRED_MIN_DATE_COLUMNS_IN_ROW == 7
\* find_date_row(sheet): MIN_DATE_COLUMNS_IN_ROW.
MIN_DATE_COLUMNS_IN_ROW == 7
\* find_name_column, method and function: REQUIRED_MATCH_COUNT.
REQUIRED_MATCH_COUNT == 6

\* Cells of a worksheet: a date cell, a text cell, an empty cell.
DateCell == [data_type |-> "d", value |-> "date"]
TextCell(v) == [data_type |-> "s", value |-> v]
EmptyCell == [data_type |-> "n", value |-> ""]

\* Cell.is_date
is_date(cell) == cell.data_type = "d"

\* The row headers of the staff rows, top to bottom.
StaffNames == <<"Ann Lee", "Bob Ray", "Cy Fox", "Di Kim", "Ed Roe", "Flo Day">>

\* re.compile(r"\b[A-Z][a-z'-]+\s+[A-Z][a-z'-]+\b").match(value) on the cell
\* texts of the model: the staff names match, "Vacant", "wk", "D" do not.
\* "John Smith", "Jane Doe" and "John Smith / Jane Doe" match too (match()
\* anchors at the start only); "Jane A. Doe", "ICU" do not.
NameRegexMatch(value) ==
    \/ \E i \in 1..Len(StaffNames) : StaffNames[i] = value
    \/ value \in {"John Smith", "Jane Doe", "John Smith / Jane Doe"}

\* [match.group() for match in regex.finditer(string)] with FULLNAME_PATTERN,
\* as a set: a header of two names separated by " / " holds both, a header
\* of one name holds it, "Jane A. Doe" (the initial "A" is no name part),
\* "ICU", "Vacant", "wk" and "D" hold none.
FullNames(string) ==
    CASE string = "John Smith / Jane Doe" -> {"John Smith", "Jane Doe"}
      [] string \in {"John Smith", "Jane Doe"} -> {string}
      [] (\E i \in 1..Len(StaffNames) : StaffNames[i] = string) -> {string}
      [] OTHER -> {}

Cells(n, cell) == [i \in 1..n |-> cell]

\* Header rows of the model: an empty first cell, a run of p[1] date cells, a
\* text cell, and a run of p[2] date cells.
RowPatterns == {<<0, 0>>, <<6, 0>>, <<7, 0>>, <<4, 3>>}

HeaderRow(p) ==
    <<EmptyCell>> \o Cells(p[1], DateCell) \o <<TextCell("wk")>> \o Cells(p[2], DateCell)

\* Staff row i: its row header (a name for the first k rows) and a label.
StaffRow(i, k) ==
    <<TextCell(IF i <= k THEN StaffNames[i] ELSE "Vacant"), TextCell("D")>>

\* Worksheet.iter_rows() yields rows of one width: short rows end in empty cells.
Pad(row, w) == row \o Cells(w - Len(row), EmptyCell)

\* The worksheet with the header rows h and k named staff rows.
MkSheet(h, k) ==
    LET rows == [r \in 1..Len(h) |-> HeaderRow(h[r])]
                  \o [i \in 1..Len(StaffNames) |-> StaffRow(i, k)]
        w == CHOOSE n \in {Len(rows[r]) : r \in 1..Len(rows)} :
                \A r \in 1..Len(rows) : Len(rows[r]) <= n
    IN  [r \in 1..Len(rows) |-> Pad(rows[r], w)]

\* Worksheets with any header rows and with enough names, or one too few,
\* for the name column.
Sheets ==
    {MkSheet(h, k) : h \in [1..NumHeaderRows -> RowPatterns],
                     k \in {REQUIRED_MATCH_COUNT - 1, REQUIRED_MATCH_COUNT}}

\* A well-formed term roster: the date row is the last header row.
TermSheet ==
    MkSheet([r \in 1..NumHeaderRows |-> IF r = NumHeaderRows THEN <<7, 0>> ELSE <<0, 0>>],
            REQUIRED_MATCH_COUNT)

\* A term roster laid out as a grid of 18 rows and 17 columns: the date row
\* is row 10 with 14 date cells in columns 4 to 17, the row headers are in
\* column 3, row 12 is headed header and holds the labels D, D, OFF, N under
\* the first four dates, rows 13 to 18 are the rows of the staff names.
ExampleSheet(header) ==
    [r \in 1..18 |->
        [j \in 1..17 |->
            CASE r = 10 /\ j >= 4 -> DateCell
              [] r = 12 /\ j = 3 -> TextCell(header)
              [] r = 12 /\ j \in 4..7 -> TextCell(<<"D", "D", "OFF", "N">>[j - 3])
              [] r >= 13 /\ j = 3 -> TextCell(StaffNames[r - 12])
              [] r >= 13 /\ j = 4 -> TextCell("D")
              [] OTHER -> EmptyCell]]

\* The grid with a row header that has a middle initial and with one that
\* has none.
ExampleSheets == {ExampleSheet("Jane A. Doe"), ExampleSheet("Jane Doe")}

\* Row 12 of the grid under the 14 dates of row 10 (ui.py lines 259-263):
\* the labels D, D, OFF, N and ten empty cells.
ExampleRoster ==
    [i \in 1..14 |->
        [date |-> i, label |-> IF i <= 4 THEN <<"D", "D", "OFF", "N">>[i] ELSE ""]]

\* Worksheet.iter_cols(): column j, top to bottom.
Column(sh, j) == [r \in 1..Len(sh) |-> sh[r][j]]

SheetWidth(sh) == Len(sh[1])

\* sum(cell.is_date for cell in row)
NumDates(row) == Cardinality({j \in 1..Len(row) : is_date(row[j])})

RECURSIVE FirstDateRowFrom(_, _)
\* The loop of TermRosterParser.find_date_row from row_number on.
FirstDateRowFrom(sh, row_number) ==
    IF row_number > Len(sh) THEN 0
    ELSE IF NumDates(sh[row_number]) >= REQUIRED_MIN_DATE_COLUMNS_IN_ROW
         THEN row_number
         ELSE FirstDateRowFrom(sh, row_number + 1)

\* TermRosterParser.find_date_row: the first row with at least 7 date cells,
\* 0 when there is none.
TermRosterParser_find_date_row(sh) == FirstDateRowFrom(sh, 1)

RECURSIVE DateCountReaches(_, _, _)
\* The inner loop of find_date_row(sheet) from cell j on: date_count is not
\* reset on a non-date cell, and the loop breaks when it equals the minimum.
DateCountReaches(row, j, date_count) ==
    IF j > Len(row) THEN FALSE
    ELSE IF is_date(row[j])
         THEN IF date_count + 1 = MIN_DATE_COLUMNS_IN_ROW THEN TRUE
              ELSE DateCountReaches(row, j + 1, date_count + 1)
         ELSE DateCountReaches(row, j + 1, date_count)

RECURSIVE DateRowScan(_, _, _)
\* The outer loop of find_date_row(sheet) from row r on: the break leaves the
\* inner loop only, so a later row that reaches the minimum replaces date_row.
DateRowScan(sh, r, date_row) ==
    IF r > Len(sh) THEN date_row
    ELSE DateRowScan(sh, r + 1,
                     IF DateCountReaches(sh[r], 1, 0) THEN r ELSE date_row)

\* find_date_row(sheet), the module-level function main.py imports.
find_date_row(sh) == DateRowScan(sh, 1, 0)

\* A column reaches REQUIRED_MATCH_COUNT text cells that match the name regex.
ColumnMatches(col) ==
    Cardinality({r \in 1..Len(col) :
                    col[r].data_type = "s" /\ NameRegexMatch(col[r].value)})
        >= REQUIRED_MATCH_COUNT

RECURSIVE FirstNameColumnFrom(_, _)
\* The loop of TermRosterParser.find_name_column from column j on.
FirstNameColumnFrom(sh, j) ==
    IF j > SheetWidth(sh) THEN 0
    ELSE IF ColumnMatches(Column(sh, j)) THEN j
         ELSE FirstNameColumnFrom(sh, j + 1)

\* TermRosterParser.find_name_column: the first matching column, 0 (not None)
\* when there is none.
TermRosterParser_find_name_column(sh) == FirstNameColumnFrom(sh, 1)

\* openpyxl column letters of the model's columns.
ColumnLetters == <<"A", "B", "C", "D", "E", "F", "G", "H", "I", "J", "K", "L",
                   "M", "N", "O", "P", "Q">>

\* openpyxl get_column_letter(idx) raises ValueError outside 1..18278.
ValidColumnIndex(idx) == 1 <= idx /\ idx <= 18278

get_column_letter(idx) == ColumnLetters[idx]

column_index_from_string(letter) ==
    CHOOSE j \in 1..Len(ColumnLetters) : ColumnLetters[j] = letter

RECURSIVE NameColumnScan(_, _, _)
\* The loop of find_name_column(sheet): the break leaves the inner loop only,
\* so a later matching column replaces column_letter.
NameColumnScan(sh, j, column_letter) ==
    IF j > SheetWidth(sh) THEN column_letter
    ELSE NameColumnScan(sh, j + 1,
                        IF ColumnMatches(Column(sh, j)) THEN get_column_letter(j)
                        ELSE column_letter)

\* find_name_column(sheet), the module-level function main.py imports: ""
\* when no column matches.
find_name_column(sh) == NameColumnScan(sh, 1, "")

\* dict of no entries.
EmptyDict == [n \in {} |-> 0]

\* d[key] = row on a dict kept as its items in insertion order: a key the
\* dict holds keeps its place and takes the new row.
DictPut(items, key, row) ==
    IF \E i \in 1..Len(items) : items[i].key = key
    THEN [i \in 1..Len(items) |->
            IF items[i].key = key THEN [key |-> key, row |-> row] ELSE items[i]]
    ELSE Append(items, [key |-> key, row |-> row])

RECURSIVE ColumnHeaders(_, _, _)
ColumnHeaders(col, r, items) ==
    IF r > Len(col) THEN items
    ELSE ColumnHeaders(col, r + 1,
                       IF col[r].data_type = "s" THEN DictPut(items, col[r].value, r)
                       ELSE items)

\* {cell.value: cell.row for cell in column if cell.data_type == "s"}, as
\* the items of the dict in iteration order: a later row with the same text
\* replaces the row number.
row_header_to_number(sh, j) == ColumnHeaders(Column(sh, j), 1, <<>>)

\* for fullname in fullnames: results[fullname] = row
StoreMatches(results, fullnames, row) ==
    [n \in (DOMAIN results) \cup fullnames |->
        IF n \in fullnames THEN row ELSE results[n]]

RECURSIVE FilterNamesScan(_, _, _)
FilterNamesScan(items, i, results) ==
    IF i > Len(items) THEN results
    ELSE FilterNamesScan(items, i + 1,
                         StoreMatches(results, FullNames(items[i].key), items[i].row))

\* filter_names_dict(name_to_row): the items of name_to_row are scanned in
\* iteration order and every full name found in a key is stored with the
\* key's row, replacing what an earlier key stored for that name.
filter_names_dict(name_to_row) == FilterNamesScan(name_to_row, 1, EmptyDict)

\* MainWindow.parser before a TermRosterParser is built.
NoParser == [built |-> FALSE, date_row |-> 0, name_column |-> 0,
             name_to_row |-> EmptyDict]

\* The check `date_row is None`, which no int returned by find_date_row meets.
DateRowNotFoundIsNone(date_row) == FALSE

\* term_roster_parser.py line 130: date_row == 0.
DateRowNotFound(date_row) == date_row = 0

\* term_roster_parser.py line 132: `name_column is None`; find_name_column
\* returns an int, 0 when it finds no column.
NameColumnNotFound(name_column) == FALSE

\* TermRosterParser(roster): the attributes of the parser built of the
\* worksheet; built is FALSE when __init__ raises (ValueError of line 131 or
\* 133, or of get_column_letter at line 142).
TermRosterParser(sh) ==
    LET date_row == TermRosterParser_find_date_row(sh)
        name_column == TermRosterParser_find_name_column(sh)
    IN  IF \/ DateRowNotFound(date_row)
           \/ NameColumnNotFound(name_column)
           \/ ~ValidColumnIndex(name_column)
        THEN NoParser
        ELSE [built |-> TRUE, date_row |-> date_row, name_column |-> name_column,
              name_to_row |-> filter_names_dict(row_header_to_number(sh, name_column))]

\* Names handed to update_calendar: names of staff rows, the two headers of
\* row 12 of the example grid, and one that is on no roster.
Usernames == {"Ann Lee", "Zed Poe", "Jane A. Doe", "Jane Doe"}

(* ------------------------------ Init ----------------------------------- *)
\* Events an earlier run of the application may have left on the calendar
\* for the days of the term, from the labels "d", "T" and "AL" ("T" and "AL"
\* start at midnight and share their uid).
PublishedEvents ==
    {EventOf(Shift(d, c)) : d \in Days, c \in {"d", "AL", "T"}}

\* An event the application published for the day before the term.
EarlierEvents == {EventOf(Shift(0, "d"))}

\* Events of the calendar that the application did not publish.
ForeignEvents ==
    {[cls |-> "Event", uid |-> d, start |-> [day |-> d, tod |-> 0, tz |-> "naive"],
      duration |-> 24, summary |-> "private", published_by |-> "other"] : d \in Days}

InitialEvents == PublishedEvents \cup EarlierEvents \cup ForeignEvents

UniqueUids(S) == \A a, b \in S : a.uid = b.uid => a = b

Columns == [date : Days, label : CellValues]

\* The date row of a term roster holds the days of the term from left to right.
Rosters ==
    {r \in [1..NumCols -> Columns] :
        \A i \in 1..(NumCols - 1) : r[i].date < r[i + 1].date}

Init ==
    /\ roster \in Rosters
    /\ remote \in {S \in SUBSET InitialEvents : Cardinality(S) <= MaxRemote /\ UniqueUids(S)}
    /\ pc = "start"
    /\ run = 1
    /\ updated_shifts = <<>>
    /\ min_date = 0
    /\ max_date = 0
    /\ old_shifts = <<>>
    /\ outdated_shifts = <<>>
    /\ del_idx = 1
    /\ new_shifts = <<>>
    /\ tasks = <<>>
    /\ success_count = 0
    /\ fail_count = 0
    /\ report = {}
    /\ del_calls = {}
    /\ create_calls = {}
    /\ call_failed = FALSE
    /\ first_run = [ended |-> "none", call_failed |-> FALSE]
    /\ overwritten = {}
    /\ program = "ui"
    /\ sheet = TermSheet
    /\ parser = TermRosterParser(TermSheet)
    /\ username = "Ann Lee"
    /\ dates_row = 0
    /\ names_col = ""
    /\ names = EmptyDict
    /\ candidates = <<>>
    /\ lt_result = NoComparison

(* ----------------------------- actions --------------------------------- *)
\* ui.py lines 256-285: derive the shifts and the term's first and last date.
BuildShifts ==
    /\ pc = "start"
    /\ updated_shifts' = RosterShifts(roster)
    /\ min_date' = SeqMin(RosterDates(roster))
    /\ max_date' = SeqMax(RosterDates(roster))
    /\ pc' = "connect"
    /\ UNCHANGED <<roster, remote, run, old_shifts, outdated_shifts, del_idx,
                   new_shifts, tasks, success_count, fail_count, report,
                   del_calls, create_calls, call_failed, first_run, overwritten>>
    /\ UNCHANGED frontVars

\* ui.py lines 297-319: open the calendar; on any error the method returns.
Connect ==
    /\ pc = "connect"
    /\ \E ok \in BOOLEAN : pc' = IF ok THEN "list" ELSE "returned"
    /\ UNCHANGED <<roster, remote, run, updated_shifts, min_date, max_date,
                   old_shifts, outdated_shifts, del_idx, new_shifts, tasks,
                   success_count, fail_count, report, del_calls, create_calls,
                   call_failed, first_run, overwritten>>
    /\ UNCHANGED frontVars

\* ui.py lines 327-342: list the application's events of the window and
\* collect the outdated ones.
ListRemote ==
    /\ pc = "list"
    /\ old_shifts' = get_shifts_from_calendar(remote, min_date, max_date)
    /\ outdated_shifts' = OutdatedShifts(old_shifts', updated_shifts)
    /\ del_idx' = 1
    /\ pc' = "delete"
    /\ UNCHANGED <<roster, remote, run, updated_shifts, min_date, max_date,
                   new_shifts, tasks, success_count, fail_count, report,
                   del_calls, create_calls, call_failed, first_run, overwritten>>
    /\ UNCHANGED frontVars

\* DeleteLoopDone that leaves the loop one event early.
DeleteLoopDoneEarly(outdated, idx) == idx >= Len(outdated)

\* The delete loop is at its end.
DeleteLoopDone(outdated, idx) == idx > Len(outdated)

\* ui.py line 347: shift.delete() is called for the next outdated event.
DeleteCall ==
    /\ pc = "delete"
    /\ ~DeleteLoopDone(outdated_shifts, del_idx)
    /\ del_calls' = del_calls \cup {outdated_shifts[del_idx]}
    /\ pc' = "deleting"
    /\ UNCHANGED <<roster, remote, run, updated_shifts, min_date, max_date,
                   old_shifts, outdated_shifts, del_idx, new_shifts, tasks,
                   success_count, fail_count, report, create_calls,
                   call_failed, first_run, overwritten>>
    /\ UNCHANGED frontVars

\* ui.py line 347: the blocking delete returns, or raises; nothing catches
\* the exception, so update_calendar ends there.
DeleteReturn ==
    /\ pc = "deleting"
    /\ \E ok \in BOOLEAN :
         IF ok
         THEN /\ remote' = DeleteEvent(remote, outdated_shifts[del_idx])
              /\ del_idx' = del_idx + 1
              /\ pc' = "delete"
              /\ UNCHANGED call_failed
         ELSE /\ pc' = "crashed"
              /\ call_failed' = TRUE
              /\ UNCHANGED <<remote, del_idx>>
    /\ UNCHANGED <<roster, run, updated_shifts, min_date, max_date,
                   old_shifts, outdated_shifts, new_shifts, tasks,
                   success_count, fail_count, report, del_calls, create_calls,
                   first_run, overwritten>>
    /\ UNCHANGED frontVars

\* A pool of min(n, WorkerCeiling) threads.
PoolSizeCapped(n) == IF n < WorkerCeiling THEN n ELSE WorkerCeiling

\* ui.py line 378: ThreadPool(len(new_shifts)), one thread per shift to create.
PoolSize(n) == n

\* Number of tasks a pool thread is working on.
InFlight(ts) == Cardinality({i \in 1..Len(ts) : ts[i] = "running"})

\* ui.py lines 354-378: collect the new shifts and open ThreadPool(len(new_shifts));
\* ThreadPool(0) raises ValueError.
PlanCreate ==
    /\ pc = "delete"
    /\ DeleteLoopDone(outdated_shifts, del_idx)
    /\ new_shifts' = NewShifts(updated_shifts, old_shifts)
    /\ tasks' = [i \in 1..Len(new_shifts') |-> "pending"]
    /\ pc' = IF PoolSize(Len(new_shifts')) = 0 THEN "crashed" ELSE "starmap"
    /\ UNCHANGED <<roster, remote, run, updated_shifts, min_date, max_date,
                   old_shifts, outdated_shifts, del_idx, success_count,
                   fail_count, report, del_calls, create_calls, call_failed,
                   first_run, overwritten>>
    /\ UNCHANGED frontVars

\* ui.py line 390/414: a free pool thread takes task i and calls save_event.
WorkerStart(i) ==
    /\ pc = "starmap"
    /\ tasks[i] = "pending"
    /\ InFlight(tasks) < PoolSize(Len(tasks))
    /\ tasks' = [tasks EXCEPT ![i] = "running"]
    /\ create_calls' = create_calls \cup {i}
    /\ UNCHANGED <<roster, remote, pc, run, updated_shifts, min_date, max_date,
                   old_shifts, outdated_shifts, del_idx, new_shifts,
                   success_count, fail_count, report, del_calls, call_failed,
                   first_run, overwritten>>
    /\ UNCHANGED frontVars

Outcomes == {"ok", "conflict", "error"}

\* ui.py lines 412-418: save_event returns (True), raises ConsistencyError or
\* PutError (False), or raises anything else, which leaves the worker.
WorkerFinish(i, outcome) ==
    /\ pc = "starmap"
    /\ tasks[i] = "running"
    /\ tasks' = [tasks EXCEPT ![i] = outcome]
    /\ remote' = IF outcome = "ok" THEN SaveEvent(remote, new_shifts[i]) ELSE remote
    /\ overwritten' = IF outcome = "ok"
                      THEN overwritten \cup Replaced(remote, new_shifts[i])
                      ELSE overwritten
    /\ call_failed' = (call_failed \/ outcome # "ok")
    /\ UNCHANGED <<roster, pc, run, updated_shifts, min_date, max_date,
                   old_shifts, outdated_shifts, del_idx, new_shifts,
                   success_count, fail_count, report, del_calls, create_calls,
                   first_run>>
    /\ UNCHANGED frontVars

\* ResultList of a worker that returns True on every path.
ResultListAllTrue(ts) == [i \in 1..Len(ts) |-> TRUE]

\* The result list starmap returns: True/False per task, in task order.
ResultList(ts) == [i \in 1..Len(ts) |-> ts[i] = "ok"]

\* AllDone that lets starmap return while a task is still running.
AllTaken(ts) == \A i \in 1..Len(ts) : ts[i] # "pending"

\* Every task of the pool has finished.
AllDone(ts) == \A i \in 1..Len(ts) : ts[i] \in Outcomes

\* ui.py lines 390-409: starmap returns once every task is done; it re-raises
\* a worker's exception, otherwise the counts are taken and reported.
Join ==
    /\ pc = "starmap"
    /\ AllDone(tasks)
    /\ IF \E i \in 1..Len(tasks) : tasks[i] = "error"
       THEN /\ pc' = "crashed"
            /\ UNCHANGED <<success_count, fail_count, report>>
       ELSE /\ success_count' = Count(ResultList(tasks), TRUE)
            /\ fail_count' = Count(ResultList(tasks), FALSE)
            /\ report' = {[success_count |-> success_count',
                           fail_count |-> fail_count']}
            /\ pc' = "reported"
    /\ UNCHANGED <<roster, remote, run, updated_shifts, min_date, max_date,
                   old_shifts, outdated_shifts, del_idx, new_shifts, tasks,
                   del_calls, create_calls, call_failed, first_run, overwritten>>
    /\ UNCHANGED frontVars

RunEnded == pc \in {"reported", "crashed", "returned"}

\* The user runs the sync a second time on the same roster.
Rerun ==
    /\ RunEnded
    /\ run = 1
    /\ run' = run + 1
    /\ first_run' = [ended |-> pc, call_failed |-> call_failed]
    /\ pc' = "start"
    /\ updated_shifts' = <<>>
    /\ min_date' = 0
    /\ max_date' = 0
    /\ old_shifts' = <<>>
    /\ outdated_shifts' = <<>>
    /\ del_idx' = 1
    /\ new_shifts' = <<>>
    /\ tasks' = <<>>
    /\ success_count' = 0
    /\ fail_count' = 0
    /\ report' = {}
    /\ del_calls' = {}
    /\ create_calls' = {}
    /\ call_failed' = FALSE
    /\ overwritten' = {}
    /\ UNCHANGED <<roster, remote>>
    /\ UNCHANGED frontVars

Next ==
    \/ BuildShifts
    \/ Connect
    \/ ListRemote
    \/ DeleteCall
    \/ DeleteReturn
    \/ PlanCreate
    \/ \E i \in 1..Len(tasks) : WorkerStart(i)
    \/ \E i \in 1..Len(tasks), o \in Outcomes : WorkerFinish(i, o)
    \/ Join
    \/ Rerun

Spec == Init /\ [][Next]_vars

(* -------- the sync on a calendar that other publishers write to -------- *)
\* Events that carry the uid of a day shift of the term and another
\* X-PUBLISHED-BY: the resource of a shift re-saved by another publisher.
SameUidEvents ==
    {[EventOf(Shift(d, "d")) EXCEPT !.published_by = "other"] : d \in Days}

\* The day shifts an earlier run published.
DayShiftEvents == {EventOf(Shift(d, "d")) : d \in Days}

FrameEvents == SameUidEvents \cup ForeignEvents \cup DayShiftEvents

FrameInit ==
    /\ roster \in Rosters
    /\ remote \in {S \in SUBSET FrameEvents : Cardinality(S) <= MaxRemote /\ UniqueUids(S)}
    /\ pc = "start"
    /\ run = 1
    /\ updated_shifts = <<>>
    /\ min_date = 0
    /\ max_date = 0
    /\ old_shifts = <<>>
    /\ outdated_shifts = <<>>
    /\ del_idx = 1
    /\ new_shifts = <<>>
    /\ tasks = <<>>
    /\ success_count = 0
    /\ fail_count = 0
    /\ report = {}
    /\ del_calls = {}
    /\ create_calls = {}
    /\ call_failed = FALSE
    /\ first_run = [ended |-> "none", call_failed |-> FALSE]
    /\ overwritten = {}
    /\ program = "ui"
    /\ sheet = TermSheet
    /\ parser = TermRosterParser(TermSheet)
    /\ username = "Ann Lee"
    /\ dates_row = 0
    /\ names_col = ""
    /\ names = EmptyDict
    /\ candidates = <<>>
    /\ lt_result = NoComparison

FrameSpec == FrameInit /\ [][Next]_vars

(* -------------- roster cells to shifts, on wider rosters --------------- *)
\* Cell texts of a user's row: empty, blank, day off, and shift labels with
\* and without a start time.
LabelCells == {"", "  ", " off ", "OFF", "d", "F", "T", "AL"}

\* Date-typed columns of a roster whose date row may repeat a date.
LabelRosters == [1..NumCols -> [date : Days, label : LabelCells]]

\* update_calendar up to the roster-derived shift list, on any such roster.
LabelInit ==
    /\ roster \in LabelRosters
    /\ remote = {}
    /\ pc = "start"
    /\ run = 1
    /\ updated_shifts = <<>>
    /\ min_date = 0
    /\ max_date = 0
    /\ old_shifts = <<>>
    /\ outdated_shifts = <<>>
    /\ del_idx = 1
    /\ new_shifts = <<>>
    /\ tasks = <<>>
    /\ success_count = 0
    /\ fail_count = 0
    /\ report = {}
    /\ del_calls = {}
    /\ create_calls = {}
    /\ call_failed = FALSE
    /\ first_run = [ended |-> "none", call_failed |-> FALSE]
    /\ overwritten = {}
    /\ program = "ui"
    /\ sheet = TermSheet
    /\ parser = TermRosterParser(TermSheet)
    /\ username = "Ann Lee"
    /\ dates_row = 0
    /\ names_col = ""
    /\ names = EmptyDict
    /\ candidates = <<>>
    /\ lt_result = NoComparison

\* A caller compares two shifts of the roster-derived list with <.
CompareShifts(i, j) ==
    /\ pc = "connect"
    /\ lt_result' = [a |-> i, b |-> j,
                     result |-> Shift__lt__(updated_shifts[i], updated_shifts[j])]
    /\ pc' = "compared"
    /\ UNCHANGED <<syncData, program, sheet, parser, username, dates_row,
                   names_col, names, candidates>>

LabelNext ==
    \/ BuildShifts
    \/ \E i, j \in 1..Len(updated_shifts) : CompareShifts(i, j)

LabelSpec == LabelInit /\ [][LabelNext]_vars

(* ------------------- filter_names_dict on any dict -------------------- *)
\* Row headers a name column may hold.
RowHeaders == {"John Smith", "Jane Doe", "John Smith / Jane Doe", "ICU"}

\* The dicts row_header_to_number can be: at most MaxCandidates headers,
\* no header twice, no row twice, in any iteration order (a header's place
\* is that of its first cell, its row that of its last).
CandidateDicts ==
    UNION {{c \in [1..n -> [key : RowHeaders, row : 1..MaxCandidates]] :
                \A i, j \in 1..n :
                    i # j => c[i].key # c[j].key /\ c[i].row # c[j].row} :
           n \in 0..MaxCandidates}

NamesInit ==
    /\ candidates \in CandidateDicts
    /\ names = EmptyDict
    /\ pc = "filter"
    /\ roster = [i \in 1..NumCols |-> [date |-> 1, label |-> "d"]]
    /\ remote = {}
    /\ run = 1
    /\ updated_shifts = <<>>
    /\ min_date = 0
    /\ max_date = 0
    /\ old_shifts = <<>>
    /\ outdated_shifts = <<>>
    /\ del_idx = 1
    /\ new_shifts = <<>>
    /\ tasks = <<>>
    /\ success_count = 0
    /\ fail_count = 0
    /\ report = {}
    /\ del_calls = {}
    /\ create_calls = {}
    /\ call_failed = FALSE
    /\ first_run = [ended |-> "none", call_failed |-> FALSE]
    /\ overwritten = {}
    /\ program = "ui"
    /\ sheet = TermSheet
    /\ parser = NoParser
    /\ username = ""
    /\ dates_row = 0
    /\ names_col = ""
    /\ lt_result = NoComparison

\* self.name_to_row = filter_names_dict(row_header_to_number)
FilterNames ==
    /\ pc = "filter"
    /\ names' = filter_names_dict(candidates)
    /\ pc' = "filtered"
    /\ UNCHANGED <<syncData, program, sheet, parser, username, dates_row,
                   names_col, candidates, lt_result>>

NamesNext == FilterNames

NamesSpec == NamesInit /\ [][NamesNext]_vars

(* ---------- worksheet to parser to name selection to the sync ---------- *)
\* ui.py lines 221-222/232-233: TermRosterParser(roster) and, when it did
\* not raise, select_username().
Construct ==
    /\ program = "ui"
    /\ pc = "construct"
    /\ parser' = TermRosterParser(sheet)
    /\ pc' = IF parser'.built THEN "select" ELSE "raised"
    /\ UNCHANGED <<syncData, program, sheet, username, dates_row, names_col, names,
                   candidates, lt_result>>

\* ui.py lines 247-258: update_calendar(username) looks the name up in
\* parser.name_to_row; a missing key raises KeyError.
NameSelected(name) ==
    /\ program = "ui"
    /\ pc = "select"
    /\ username' = name
    /\ pc' = IF name \in DOMAIN parser.name_to_row THEN "start" ELSE "raised"
    /\ UNCHANGED <<syncData, program, sheet, parser, dates_row, names_col, names,
                   candidates, lt_result>>

\* main.py lines 76-88: the date row (only an AssertionError is handled), the
\* name column (sys.exit(1) when it is empty) and the names of the column.
MainLocate ==
    /\ program = "main"
    /\ pc = "main_locate"
    /\ dates_row' = find_date_row(sheet)
    /\ names_col' = find_name_column(sheet)
    /\ IF names_col' = ""
       THEN /\ pc' = "exited"
            /\ UNCHANGED names
       ELSE /\ names' = filter_names_dict(
                          row_header_to_number(sheet, column_index_from_string(names_col')))
            /\ pc' = "main_select"
    /\ UNCHANGED <<syncData, program, sheet, parser, username, candidates, lt_result>>

\* main.py lines 100-104: the name-select window stores the picked name.
MainNameSelected(name) ==
    /\ program = "main"
    /\ pc = "main_select"
    /\ username' = name
    /\ pc' = "main_read_dates"
    /\ UNCHANGED <<syncData, program, sheet, parser, dates_row, names_col, names,
                   candidates, lt_result>>

\* main.py lines 111-112: worksheet[dates_row][start_col:]; openpyxl raises
\* IndexError for the row index 0.
MainReadDates ==
    /\ program = "main"
    /\ pc = "main_read_dates"
    /\ pc' = IF dates_row = 0 THEN "raised" ELSE "main_user_row"
    /\ UNCHANGED <<syncData, frontVars>>

\* main.py lines 113-149: the user's row (sys.exit(1) without one), the
\* term's first and last date and the roster-derived shifts.
MainBuildShifts ==
    /\ program = "main"
    /\ pc = "main_user_row"
    /\ IF username \in DOMAIN names
       THEN /\ updated_shifts' = RosterShifts(roster)
            /\ min_date' = SeqMin(RosterDates(roster))
            /\ max_date' = SeqMax(RosterDates(roster))
            /\ pc' = "main_calendar"
       ELSE /\ pc' = "exited"
            /\ UNCHANGED <<updated_shifts, min_date, max_date>>
    /\ UNCHANGED <<roster, remote, run, old_shifts, outdated_shifts, del_idx,
                   new_shifts, tasks, success_count, fail_count, report,
                   del_calls, create_calls, call_failed, first_run, overwritten, frontVars>>

\* main.py lines 244-254: the shifts equal (==) to no listed resource.
MainNewShifts(shifts, existing_shifts) ==
    SelectSeq(shifts,
              LAMBDA shift : ~\E j \in 1..Len(existing_shifts) :
                                 Shift__eq__(shift, ResourceOf(existing_shifts[j])))

\* main.py lines 204-226: open the calendar; an AuthorizationError ends the
\* program with sys.exit(1).
MainConnect ==
    /\ program = "main"
    /\ pc = "main_calendar"
    /\ \E ok \in BOOLEAN : pc' = IF ok THEN "main_list" ELSE "exited"
    /\ UNCHANGED <<syncData, frontVars>>

\* main.py lines 229-254: list the application's events of the term; with
\* none listed every shift is inserted, otherwise the shifts that equal no
\* listed event.
MainList ==
    /\ program = "main"
    /\ pc = "main_list"
    /\ old_shifts' = get_shifts_from_calendar(remote, min_date, max_date)
    /\ IF Len(old_shifts') = 0
       THEN /\ new_shifts' = updated_shifts
            /\ pc' = "main_insert"
       ELSE /\ new_shifts' = MainNewShifts(updated_shifts, old_shifts')
            /\ pc' = "main_write"
    /\ UNCHANGED <<roster, remote, run, updated_shifts, min_date, max_date,
                   outdated_shifts, del_idx, tasks, success_count, fail_count,
                   report, del_calls, create_calls, call_failed, first_run,
                   overwritten, frontVars>>

\* main.py lines 235-242 and 255-270: save_event for the next shift of the
\* list. The insert loop catches every Exception; the write loop catches
\* PutError only, anything else ends the program.
MainSave(outcome) ==
    /\ program = "main"
    /\ pc \in {"main_insert", "main_write"}
    /\ LET i == Cardinality(create_calls) + 1
       IN  /\ i <= Len(new_shifts)
           /\ create_calls' = create_calls \cup {i}
           /\ remote' = IF outcome = "ok" THEN SaveEvent(remote, new_shifts[i])
                         ELSE remote
           /\ overwritten' = IF outcome = "ok"
                              THEN overwritten \cup Replaced(remote, new_shifts[i])
                              ELSE overwritten
    /\ call_failed' = (call_failed \/ outcome # "ok")
    /\ pc' = IF pc = "main_write" /\ outcome = "error" THEN "raised" ELSE pc
    /\ UNCHANGED <<roster, run, updated_shifts, min_date, max_date, old_shifts,
                   outdated_shifts, del_idx, new_shifts, tasks, success_count,
                   fail_count, report, del_calls, first_run, frontVars>>

\* main.py line 280: the loop is over and the program ends.
MainDone ==
    /\ program = "main"
    /\ pc \in {"main_insert", "main_write"}
    /\ Cardinality(create_calls) = Len(new_shifts)
    /\ pc' = "main_done"
    /\ UNCHANGED <<syncData, frontVars>>

\* The calendars of the model: empty, holding an annual-leave event the
\* application published for the first day, or holding the day shifts of
\* the whole term as an earlier run on the same roster left them.
ParseRemotes ==
    {{}, {EventOf(Shift(1, "AL"))}, {EventOf(Shift(d, "d")) : d \in Days}}

\* Either entry point on any worksheet of the model. On the small sheets the
\* user's row holds a day shift on every day of the term and the calendar is
\* one of ParseRemotes; the example grid comes with its row 12 and an empty
\* calendar.
ParseInit ==
    /\ program \in {"ui", "main"}
    /\ sheet \in Sheets \cup ExampleSheets
    /\ parser = NoParser
    /\ username = ""
    /\ dates_row = 0
    /\ names_col = ""
    /\ names = EmptyDict
    /\ candidates = <<>>
    /\ lt_result = NoComparison
    /\ pc = IF program = "ui" THEN "construct" ELSE "main_locate"
    /\ IF sheet \in ExampleSheets
       THEN /\ roster = ExampleRoster
            /\ remote = {}
       ELSE /\ roster \in {r \in Rosters : \A i \in 1..NumCols : r[i].label = "d"}
            /\ remote \in ParseRemotes
    /\ run = 1
    /\ updated_shifts = <<>>
    /\ min_date = 0
    /\ max_date = 0
    /\ old_shifts = <<>>
    /\ outdated_shifts = <<>>
    /\ del_idx = 1
    /\ new_shifts = <<>>
    /\ tasks = <<>>
    /\ success_count = 0
    /\ fail_count = 0
    /\ report = {}
    /\ del_calls = {}
    /\ create_calls = {}
    /\ call_failed = FALSE
    /\ first_run = [ended |-> "none", call_failed |-> FALSE]
    /\ overwritten = {}

ParseNext ==
    \/ Construct
    \/ \E name \in Usernames : NameSelected(name)
    \/ MainLocate
    \/ \E name \in Usernames : MainNameSelected(name)
    \/ MainReadDates
    \/ MainBuildShifts
    \/ MainConnect
    \/ MainList
    \/ \E o \in Outcomes : MainSave(o)
    \/ MainDone
    \/ BuildShifts
    \/ Connect
    \/ ListRemote
    \/ DeleteCall
    \/ DeleteReturn
    \/ PlanCreate
    \/ \E i \in 1..Len(tasks) : WorkerStart(i)
    \/ \E i \in 1..Len(tasks), o \in Outcomes : WorkerFinish(i, o)
    \/ Join

ParseSpec == ParseInit /\ [][ParseNext]_vars

TypeOK ==
    /\ pc \in {"start", "connect", "list", "delete", "deleting", "starmap",
               "reported", "crashed", "returned", "construct", "select",
               "raised", "main_locate", "main_select", "main_read_dates",
               "main_user_row", "main_calendar", "exited", "compared",
               "filter", "filtered", "main_list", "main_insert", "main_write",
               "main_done"}
    /\ run \in 1..2
    /\ UniqueUids(remote)

(* ======================= properties of the sync ======================== *)
Range(s) == {s[i] : i \in 1..Len(s)}

\* uids of the roster-derived shifts.
LocalUids == {updated_shifts[i].uid : i \in 1..Len(updated_shifts)}

\* uids of the listed remote events.
ListedUids == {old_shifts[j].uid : j \in 1..Len(old_shifts)}

\* The application's events on the remote calendar inside the run's window.
PublishedInWindow ==
    {e \in remote : /\ e.published_by = APP_NAME
                    /\ min_date <= e.start.day /\ e.start.day <= max_date}

\* The create set has been computed in this run.
CreateSetComputed ==
    \/ pc \in {"starmap", "reported"}
    \/ pc = "crashed" /\ del_idx > Len(outdated_shifts)

\* C1: after a run that reported and in which every remote delete and create
\* call succeeded, the application's events of the window carry exactly the
\* uids of the roster-derived shifts.
C1_RemoteMatchesRoster ==
    (pc = "reported" /\ ~call_failed)
        => {e.uid : e \in PublishedInWindow} = LocalUids

\* C2: in a second run that follows a first run which reported without any
\* failed call, the delete set and the create set are empty and no remote
\* delete or create call is issued.
C2_SecondRunDoesNothing ==
    (run = 2 /\ first_run.ended = "reported" /\ ~first_run.call_failed)
        => /\ outdated_shifts = <<>>
           /\ new_shifts = <<>>
           /\ del_calls = {}
           /\ create_calls = {}

\* C3: the delete set is exactly the listed events whose uid is the uid of no
\* roster-derived shift, and no event whose uid is the uid of a roster-derived
\* shift is submitted for deletion.
C3_DeleteSetByUid ==
    /\ \A j \in 1..Len(old_shifts) :
          (old_shifts[j] \in Range(outdated_shifts)) <=> (old_shifts[j].uid \notin LocalUids)
    /\ \A e \in del_calls : e.uid \notin LocalUids

C5_EmptyRosterNoOp ==
    RosterShifts(roster) = <<>>
        => /\ outdated_shifts = <<>>
           /\ new_shifts = <<>>
           /\ del_calls = {}

\* C5 amended: with an empty roster-derived shift set the create set is empty
\* and no create call is made, but the delete set is every listed event (the
\* application's events in the term's date window); only listed events are
\* submitted for deletion, and all of them once the delete loop is through.
C5_EmptyRosterDeletesListed ==
    RosterShifts(roster) = <<>>
        => /\ new_shifts = <<>>
           /\ create_calls = {}
           /\ outdated_shifts = old_shifts
           /\ del_calls \subseteq Range(old_shifts)
           /\ (pc = "crashed" /\ ~call_failed) => del_calls = Range(old_shifts)

\* C5 witness: the roster yields no shift, events were listed and all of them
\* have been deleted.
C5_Witness ==
    /\ RosterShifts(roster) = <<>>
    /\ Len(old_shifts) >= 1
    /\ del_calls = Range(old_shifts)
    /\ del_idx > Len(outdated_shifts)
    /\ ~call_failed
    /\ PublishedInWindow = {}

\* C6: at the end of every run whose creation phase ran, whatever the outcomes
\* of the creations, success count plus failure count is the size of the
\* create set.
C6_CountsAddUp ==
    (pc \in {"reported", "crashed"} /\ tasks # <<>> /\ AllDone(tasks))
        => success_count + fail_count = Len(new_shifts)

\* Number of tasks with the given outcome.
NumOutcome(o) == Cardinality({i \in 1..Len(tasks) : tasks[i] = o})

\* C7 as stated: when k >= 1 creations failed with a conflict-class error, the
\* run reports success count n-k and a failure result that holds exactly the k
\* shifts whose creation failed.
C7_FailuresIdentified ==
    (pc = "reported" /\ NumOutcome("conflict") >= 1)
        => \A r \in report :
              /\ r.success_count = Len(new_shifts) - NumOutcome("conflict")
              /\ "failures" \in DOMAIN r
              /\ r.failures = {new_shifts[i] : i \in {j \in 1..Len(tasks) : tasks[j] = "conflict"}}

\* C7 amended: when k of the n >= 1 attempted creations fail with a
\* conflict-class error and the others succeed, the run reports success count
\* n-k and failure count k, and the report is these two counts only.
C7_CountsReported ==
    /\ pc = "reported"
          => /\ NumOutcome("error") = 0
             /\ Len(new_shifts) >= 1
             /\ report = {[success_count |-> Len(new_shifts) - NumOutcome("conflict"),
                           fail_count    |-> NumOutcome("conflict")]}
    /\ (pc \in {"reported", "crashed"} /\ tasks # <<>> /\ AllDone(tasks)
            /\ NumOutcome("error") = 0)
          => pc = "reported"

\* C7 witness: a run has reported after one creation failed with a
\* conflict-class error and another succeeded.
C7_Witness ==
    /\ pc = "reported"
    /\ NumOutcome("conflict") >= 1
    /\ NumOutcome("ok") >= 1

\* C8: once every worker has finished, the run reports its counts, and every
\* creation that did not succeed, whatever its error, is one reported failure.
C8_OtherFailureNonFatal ==
    (pc # "starmap" /\ tasks # <<>> /\ AllDone(tasks))
        => /\ pc = "reported"
           /\ fail_count = NumOutcome("conflict") + NumOutcome("error")

\* C9: a run that got as far as the delete loop ends only after every event of
\* the delete set has been submitted for deletion and the creation phase has
\* been entered.
C9_DeleteFailureContinues ==
    pc \in {"reported", "crashed"}
        => /\ del_calls = Range(outdated_shifts)
           /\ del_idx > Len(outdated_shifts)

\* C10: while any create call has been started, no delete call is in flight
\* and every event of the delete set has been deleted before.
C10_DeletesBeforeCreates ==
    (create_calls # {} \/ \E i \in 1..Len(tasks) : tasks[i] # "pending")
        => /\ pc # "deleting"
           /\ del_idx = Len(outdated_shifts) + 1
           /\ del_calls = Range(outdated_shifts)
           /\ \A e \in Range(outdated_shifts) : e \notin remote

\* C10 witness: a create call is in flight in a run that has deleted events.
C10_Witness ==
    /\ pc = "starmap"
    /\ \E i \in 1..Len(tasks) : tasks[i] = "running"
    /\ Len(outdated_shifts) >= 2
    /\ del_calls = Range(outdated_shifts)

\* C11: when the creation phase has reported its counts, a create call was
\* made for every shift of the create set, every worker has finished its call
\* and none is in flight, whatever the outcomes.
C11_JoinBeforeReport ==
    pc = "reported"
        => /\ tasks # <<>>
           /\ \A i \in 1..Len(tasks) : tasks[i] \in {"ok", "conflict"}
           /\ InFlight(tasks) = 0
           /\ create_calls = 1..Len(new_shifts)
           /\ success_count + fail_count = Len(tasks)

\* C11 witness: the counts were reported after two workers ran, one create
\* call having succeeded and the other failed.
C11_Witness ==
    /\ pc = "reported"
    /\ Len(tasks) = 2
    /\ tasks[1] = "conflict"
    /\ tasks[2] = "ok"

\* C12 as stated: with a create set larger than the ceiling, never more than
\* ceiling create calls are in flight.
C12_WorkersBounded ==
    Len(tasks) > WorkerCeiling => InFlight(tasks) <= WorkerCeiling

\* C12 amended: the pool has one worker per shift to create: a pending create
\* call never waits for a free worker, so up to Len(new_shifts) create calls
\* are in flight at once.
C12_OneWorkerPerShift ==
    pc = "starmap"
        => /\ InFlight(tasks) <= Len(new_shifts)
           /\ \A i \in 1..Len(tasks) :
                 tasks[i] = "pending" => ENABLED WorkerStart(i)

\* C12 witness: the create set is larger than the ceiling and every one of its
\* create calls is in flight.
C12_Witness ==
    /\ pc = "starmap"
    /\ Len(new_shifts) > WorkerCeiling
    /\ InFlight(tasks) = Len(new_shifts)

\* C13: a run that reached the calendar and in which no remote call failed
\* ends by reporting its counts, whatever the sizes of the delete set and of
\* the create set.
C13_RunReports ==
    (pc \in {"reported", "crashed"} /\ ~call_failed) => pc = "reported"

(* ================= properties of the roster-derived shifts ============= *)
\* The label of the cell, trimmed and upper-cased, is empty or "OFF".
Skipped(cell) == Upper(Strip(cell)) \in {"", "OFF"}

\* C18: a cell whose trimmed, upper-cased label is empty or "OFF" produces no
\* Shift: every shift of the roster-derived list is the Shift of a column
\* whose label is neither, and the list is no longer than those columns.
C18_OffAndEmptySkipped ==
    pc = "connect"
        => /\ \A k \in 1..Len(updated_shifts) :
                 \E i \in 1..Len(roster) :
                    /\ ~Skipped(roster[i].label)
                    /\ updated_shifts[k] = Shift(roster[i].date, roster[i].label)
           /\ Len(updated_shifts)
                 <= Cardinality({i \in 1..Len(roster) : ~Skipped(roster[i].label)})
           /\ (\A i \in 1..Len(roster) : Skipped(roster[i].label))
                 => updated_shifts = <<>>

\* C18 witness: the row holds " off " and a shift label, and the one shift of
\* the list is that of the shift label.
C18_Witness ==
    /\ pc = "connect"
    /\ roster[1].label = " off "
    /\ roster[2].label = "d"
    /\ updated_shifts = <<Shift(roster[2].date, "d")>>

\* C19: the uid of every roster-derived shift is the uid generated from its
\* start, and two shifts have the same uid exactly when they have the same
\* start, whatever their labels.
C19_UidFromStartAlone ==
    pc = "connect"
        => \A i, j \in 1..Len(updated_shifts) :
              /\ updated_shifts[i].uid = generate_uid(updated_shifts[i].start)
              /\ (updated_shifts[i].start = updated_shifts[j].start)
                    <=> (updated_shifts[i].uid = updated_shifts[j].uid)

\* C19 witness: two shifts of one date with different labels, both starting
\* at midnight, carry one uid.
C19_Witness ==
    /\ pc = "connect"
    /\ Len(updated_shifts) = 2
    /\ updated_shifts[1].summary # updated_shifts[2].summary
    /\ updated_shifts[1].start = updated_shifts[2].start
    /\ updated_shifts[1].uid = updated_shifts[2].uid

\* C21: for any two shifts a and b of one roster, a < b is defined and holds
\* exactly when the start of a is earlier than the start of b.
C21_OrderByStart ==
    pc = "compared"
        => LET a == updated_shifts[lt_result.a]
               b == updated_shifts[lt_result.b]
           IN  /\ lt_result.result \in {"True", "False"}
               /\ (lt_result.result = "True")
                     <=> (a.start.day < b.start.day
                          \/ (a.start.day = b.start.day /\ a.start.tod < b.start.tod))

\* C22: filter_names_dict maps every full name found in a candidate string to
\* the row of that string (several names of one cell all get the cell's row),
\* and a string with no match contributes no entry.
C22_EveryMatchToItsRow ==
    pc = "filtered"
        => /\ \A i \in 1..Len(candidates) :
                \A n \in FullNames(candidates[i].key) :
                    n \in DOMAIN names /\ names[n] = candidates[i].row
           /\ DOMAIN names = UNION {FullNames(candidates[i].key) : i \in 1..Len(candidates)}

\* The candidates scanned in the order p.
Reordered(items, p) == [i \in 1..Len(items) |-> items[p[i]]]

Orders(n) == {p \in [1..n -> 1..n] : \A i, j \in 1..n : i # j => p[i] # p[j]}

\* C23: the name-to-row mapping returned by filter_names_dict is the same for
\* every order in which the candidate strings are scanned.
C23_ScanOrderIrrelevant ==
    pc = "filtered"
        => \A p \in Orders(Len(candidates)) :
              filter_names_dict(Reordered(candidates, p)) = names

\* The dates of the shifts of a list.
ShiftDates(shifts) == [i \in 1..Len(shifts) |-> shifts[i].start.day]

\* C24: the window passed to the listing call is [min, max] over the dates
\* of the user's roster-derived shifts, and no listed event lies outside the
\* span of those shifts.
C24_WindowIsUserSpan ==
    (pc # "start" /\ updated_shifts # <<>>)
        => /\ min_date = SeqMin(ShiftDates(updated_shifts))
           /\ max_date = SeqMax(ShiftDates(updated_shifts))
           /\ \A e \in Range(old_shifts) :
                 /\ SeqMin(ShiftDates(updated_shifts)) <= e.start.day
                 /\ e.start.day <= SeqMax(ShiftDates(updated_shifts))

\* C24 (amended): the window is [min, max] over all dates of the roster's
\* date row, whatever the user's labels, and every listed event lies in it.
C24_WindowIsTermSpan ==
    pc # "start"
        => /\ \E i \in 1..Len(roster) : roster[i].date = min_date
           /\ \E i \in 1..Len(roster) : roster[i].date = max_date
           /\ \A i \in 1..Len(roster) :
                 min_date <= roster[i].date /\ roster[i].date <= max_date
           /\ \A e \in Range(old_shifts) :
                 min_date <= e.start.day /\ e.start.day <= max_date

\* An event of a term date before the user's first shift was listed and a
\* delete was called on it.
C24_Witness ==
    /\ updated_shifts # <<>>
    /\ \E e \in Range(old_shifts) :
          /\ e.start.day < SeqMin(ShiftDates(updated_shifts))
          /\ e \in del_calls

\* C25: on the grid whose row 12 is headed "Jane A. Doe", the parser finds
\* the date row 10 and the name column 3 and offers "Jane A. Doe" for
\* selection; the run for that name derives exactly 3 shifts of pairwise
\* distinct uids, and against the empty remote listing its create set is all
\* 3 and its delete set is empty.
C25_EndToEnd ==
    (program = "ui" /\ sheet = ExampleSheet("Jane A. Doe"))
        => /\ pc = "select"
                => /\ parser.date_row = 10
                   /\ parser.name_column = 3
                   /\ "Jane A. Doe" \in DOMAIN parser.name_to_row
           /\ (username = "Jane A. Doe" /\ pc = "raised") => ~parser.built
           /\ (username = "Jane A. Doe" /\ pc \in {"connect", "list", "delete"})
                => /\ Len(updated_shifts) = 3
                   /\ Cardinality(LocalUids) = 3
           /\ (username = "Jane A. Doe" /\ pc \in {"starmap", "reported"})
                => /\ outdated_shifts = <<>>
                   /\ del_calls = {}
                   /\ new_shifts = updated_shifts

\* C26: only empty and "OFF" cells are skipped: every column whose trimmed,
\* upper-cased label is neither produces exactly one Shift, and a label of
\* the start-time table produces a Shift of 10 hours that starts on the
\* column's date at the table's time.
C26_OnlyOffAndEmptySkipped ==
    pc = "connect"
        => /\ Len(updated_shifts)
                 = Cardinality({i \in 1..Len(roster) : ~Skipped(roster[i].label)})
           /\ \A i \in 1..Len(roster) :
                 Upper(Strip(roster[i].label)) \in DOMAIN SHIFT_START_TIMES
                    => \E k \in 1..Len(updated_shifts) :
                          /\ updated_shifts[k].start.day = roster[i].date
                          /\ updated_shifts[k].start.tod
                                = SHIFT_START_TIMES[Upper(Strip(roster[i].label))]
                          /\ updated_shifts[k].duration = 10

\* C27: the roster-derived shift list never holds two Shifts with the same
\* uid, whatever the date row (a date may stand in two columns).
C27_UidsDistinct ==
    pc = "connect"
        => \A i, j \in 1..Len(updated_shifts) :
              updated_shifts[i].uid = updated_shifts[j].uid => i = j

\* C28: a sync run never deletes or overwrites a remote event the
\* application did not publish: every listed event carries the application's
\* X-PUBLISHED-BY, every event of the delete set and every deleted event is a
\* listed one, and no create call replaces an event of another publisher.
C28_ForeignUntouched ==
    /\ \A e \in Range(old_shifts) : e.published_by = APP_NAME
    /\ \A e \in Range(outdated_shifts) \cup del_calls :
          e \in Range(old_shifts) /\ e.published_by = APP_NAME
    /\ \A e \in overwritten : e.published_by = APP_NAME

\* C28 (amended): the listing and the delete set hold only events of the
\* application, and a create call replaces an event of another publisher
\* only when that event carries the uid of the roster shift being saved.
C28_ForeignOnlyReplacedBySameUid ==
    /\ \A e \in Range(old_shifts) : e.published_by = APP_NAME
    /\ \A e \in Range(outdated_shifts) \cup del_calls :
          e \in Range(old_shifts) /\ e.published_by = APP_NAME
    /\ \A e \in overwritten :
          e.published_by # APP_NAME
             => \E i \in create_calls :
                   new_shifts[i].uid = e.uid /\ e.uid \notin ListedUids

\* An event of another publisher that stood in the window was not listed
\* and a create call of the run replaced it.
C28_Witness ==
    \E e \in overwritten :
        /\ e.published_by # APP_NAME
        /\ min_date <= e.start.day /\ e.start.day <= max_date
        /\ e \notin Range(old_shifts)
        /\ e \notin remote

\* C29: the workers write nothing of the accounting: while they run the
\* counts are untouched, every shift of the create set gets one create call
\* and one outcome, and the reported counts are the numbers of True and
\* False outcomes, whatever the order in which the workers ran.
C29_AccountingRaceFree ==
    /\ pc = "starmap"
          => /\ success_count = 0 /\ fail_count = 0 /\ report = {}
             /\ Len(tasks) = Len(new_shifts)
             /\ create_calls = {i \in 1..Len(tasks) : tasks[i] # "pending"}
    /\ pc = "reported"
          => /\ create_calls = 1..Len(new_shifts)
             /\ \A i \in 1..Len(new_shifts) : tasks[i] \in {"ok", "conflict"}
             /\ success_count = NumOutcome("ok")
             /\ fail_count = NumOutcome("conflict")
             /\ report = {[success_count |-> NumOutcome("ok"),
                           fail_count |-> NumOutcome("conflict")]}

\* C29 witness: two workers ran, both create calls succeeded and the run
\* reported two successes.
C29_Witness ==
    /\ pc = "reported"
    /\ Len(new_shifts) = 2
    /\ NumOutcome("ok") = 2
    /\ success_count = 2

\* C30: in main.py's sync with a non-empty listing, a roster shift is put in
\* new_shifts and written exactly when no listed event has its uid, so a run
\* on a roster whose shifts are all on the calendar writes nothing.
C30_MainWritesOnlyNewUids ==
    (program = "main" /\ pc \in {"main_write", "main_done", "raised"}
        /\ old_shifts # <<>>)
        => /\ new_shifts = SelectSeq(updated_shifts,
                                     LAMBDA shift : shift.uid \notin ListedUids)
           /\ LocalUids \subseteq ListedUids => create_calls = {}

\* C20: every roster-derived Shift has a timezone-aware start in the
\* employer's time zone, with a start-time label or an all-day label.
C20_StartTimezoneAware ==
    \A k \in 1..Len(updated_shifts) :
        updated_shifts[k].start.tz = "Australia/Sydney"

(* ============ properties of the worksheet and the selection ============ *)
\* The longest run of date cells next to each other in the row from cell j
\* on, given the run that ends before j and the longest seen so far.
RECURSIVE LongestDateRun(_, _, _, _)
LongestDateRun(row, j, run_len, best) ==
    IF j > Len(row) THEN best
    ELSE LET here == IF is_date(row[j]) THEN run_len + 1 ELSE 0
         IN  LongestDateRun(row, j + 1, here, IF here > best THEN here ELSE best)

\* The row holds 7 date cells next to each other.
HasDateRun(row) == LongestDateRun(row, 1, 0, 0) >= REQUIRED_MIN_DATE_COLUMNS_IN_ROW

\* The date row either entry point has located, 0 when none or not yet.
LocatedDateRow ==
    IF program = "ui" THEN parser.date_row
    ELSE IF pc = "main_locate" THEN 0 ELSE dates_row

\* The run issued no remote list, delete or create call.
NoRemoteCall ==
    /\ pc \in {"construct", "select", "raised", "start", "connect", "list", "returned"}
    /\ old_shifts = <<>>
    /\ del_calls = {}
    /\ create_calls = {}

\* C14: in the ui.py program, when the worksheet has no date row or no name
\* column for the parser, or the selected name is no key of name_to_row, no
\* remote list, delete or create call is issued and the run never gets past
\* the failed step.
C14_FailureBeforeRemote ==
    (program = "ui" /\
        \/ TermRosterParser_find_date_row(sheet) = 0
        \/ TermRosterParser_find_name_column(sheet) = 0
        \/ (pc # "select" /\ parser.built /\ username \notin DOMAIN parser.name_to_row))
      => /\ NoRemoteCall
         /\ pc \in {"construct", "raised"}

\* C14 witness: the worksheet has its date row but one name too few for a
\* name column, and the parser's construction has raised.
C14_Witness ==
    /\ program = "ui"
    /\ TermRosterParser_find_date_row(sheet) # 0
    /\ TermRosterParser_find_name_column(sheet) = 0
    /\ pc = "raised"
    /\ ~parser.built
    /\ NoRemoteCall

\* C15: a located date row holds 7 date cells next to each other, so no row
\* of 6 date cells and no row whose 7 date cells are interrupted is selected;
\* and a worksheet with such a row gets a date row located.
C15_ContiguousRunRequired ==
    /\ LocatedDateRow # 0 => HasDateRun(sheet[LocatedDateRow])
    /\ (program = "main" /\ pc # "main_locate" /\ \E r \in 1..Len(sheet) : HasDateRun(sheet[r]))
          => dates_row # 0
    /\ (program = "ui" /\ pc = "raised" /\ ~parser.built
          /\ TermRosterParser_find_name_column(sheet) # 0)
          => ~\E r \in 1..Len(sheet) : HasDateRun(sheet[r])

\* The rows of the worksheet that hold at least 7 date cells.
RowsAtThreshold == {r \in 1..Len(sheet) : NumDates(sheet[r]) >= MIN_DATE_COLUMNS_IN_ROW}

\* C16: find_date_row(sheet) as main.py calls it returns the topmost row that
\* holds at least 7 date cells, and 0 when no row does.
C16_FirstRowReturned ==
    (program = "main" /\ pc # "main_locate")
        => /\ RowsAtThreshold = {} => dates_row = 0
           /\ RowsAtThreshold # {}
                 => /\ dates_row \in RowsAtThreshold
                    /\ \A r \in RowsAtThreshold : dates_row <= r

\* C17: a not-found result is never carried on: a parser that was built has
\* a date row and a name column that are not 0 and were found on the
\* worksheet, and main.py does not go on to the name selection or to reading
\* the worksheet with a date row of 0 or an empty name column.
C17_NotFoundSurfaced ==
    /\ parser.built
          => /\ parser.date_row # 0
             /\ parser.name_column # 0
    /\ (pc = "raised" /\ program = "ui" /\ ~parser.built)
          => parser.name_to_row = EmptyDict
    /\ (program = "main" /\ pc \in {"main_select", "main_read_dates",
                                      "main_user_row", "main_calendar"})
          => /\ dates_row # 0
             /\ names_col # ""

====
